---- MODULE Spec2Model ----
(***************************************************************************)
(* Conversation and message visibility subsystem of the chat backend:      *)
(* the Express handlers of routes/conversations.ts and routes/messages.ts  *)
(* over the Prisma tables Conversation, Participant, Message,              *)
(* ConversationHide, MessageHide and MessageRead.                          *)
(*                                                                         *)
(* Timestamps are readings of one millisecond clock `now`; two rows        *)
(* written within the same millisecond carry the same timestamp.  A        *)
(* nullable column holds <<>> for null and <<v>> for the value v.          *)
(***************************************************************************)
EXTENDS Integers, Sequences, FiniteSets, Bags, TLC

VARIABLES now, conversations, messages, convHide, msgHide, reads, resp, chain,
          reactions, typing, revokedJtis, inflight

vars == <<now, conversations, messages, convHide, msgHide, reads, resp, chain,
          reactions, typing, revokedJtis, inflight>>

\* ------------------------------------------------------------------ bounds
MaxTime == 1
MaxMsgs == 2
MaxConvs == 1
MaxFiles == 1
MaxMsgHides == 1
MaxDeletes == 1
MaxPaged == 3
MaxPages == 3
MaxReactions == 2
MaxClock == 3

\* page size of GET /api/messages/:conversationId (30 in the source; the
\* handler is parametric in it, the model runs it with a small page)
limit == 2

\* the lifetime of a typing record: 5000 ms in the source, scaled to the
\* clock of the model
TypingTtl == 2

Users == {"A", "B", "C"}
\* the two participants of the first conversation; "C" is an outsider
Members == {"A", "B"}
ConvIds == 1..MaxConvs
MsgIds == 1..MaxMsgs
PagedIds == 1..MaxPaged

\* --------------------------------------------------------- nullable values
Null == <<>>
Some(v) == <<v>>
IsNull(x) == x = <<>>
Val(x) == x[1]

\* JavaScript truthiness of an optional string
Truthy(content) == ~IsNull(content) /\ Val(content) # ""

Range(s) == {s[i] : i \in DOMAIN s}

\* ------------------------------------------------------------------ tables
\* Conversation row with its Participant rows
Conversation(id, a, b, t) ==
    [id |-> id, isGroup |-> FALSE, participants |-> {a, b}, createdAt |-> t]

\* Message row as prisma.message.create writes it
Message(id, c, u, type, content, fileUrl, t) ==
    [id |-> id, conversationId |-> c, senderId |-> u, type |-> type,
     content |-> content, fileUrl |-> fileUrl, createdAt |-> t,
     deletedAt |-> Null]

\* ConversationHide row
HideRow(hiddenAt, visibleFrom) ==
    [hiddenAt |-> hiddenAt, visibleFrom |-> visibleFrom]

\* prisma.participant.findUnique({conversationId_userId})
\* faulty variant: everyone passes the participant check
IsParticipantAnyone(u, c) == TRUE

IsParticipant(u, c) ==
    \E cv \in Range(conversations) : cv.id = c /\ u \in cv.participants

\* prisma.conversationHide.findUnique({conversationId_userId})
HasHide(u, c) == <<c, u>> \in DOMAIN convHide
HideRecord(u, c) == convHide[<<c, u>>]

\* prisma.message.findUnique({id})
MessageExists(m) == m \in 1..Len(messages)

\* the three states of the hide/restart state machine
HideState(u, c) ==
    IF ~HasHide(u, c) THEN "VISIBLE_FULL"
    ELSE IF IsNull(HideRecord(u, c).visibleFrom) THEN "HIDDEN"
    ELSE "VISIBLE_WINDOWED"

\* ---------------------------------------------------------------- responses
\* the handler that answered last and its HTTP status
NoResp == [op |-> "none", status |-> 0]

Reply(op, status) == [op |-> op, status |-> status]

\* an answer with a body
ReplyBody(op, status, body) == [op |-> op, status |-> status, body |-> body]

NoChain == [user |-> "", conv |-> 0, pages |-> <<>>, next |-> Null, open |-> FALSE]

\* ------------------------------------------------------------------- Init
Init ==
    /\ now = 0
    /\ conversations = <<Conversation(1, "A", "B", 0)>>
    /\ messages = <<>>
    /\ convHide = <<>>
    /\ msgHide = EmptyBag
    /\ reads = EmptyBag
    /\ resp = NoResp
    /\ chain = NoChain
    /\ reactions = {}
    /\ typing = <<>>
    /\ revokedJtis = {}
    /\ inflight = <<>>

\* the clock advances by one millisecond
Tick ==
    /\ now < MaxTime
    /\ now' = now + 1
    /\ UNCHANGED <<conversations, messages, convHide, msgHide, reads, resp, chain>>
    /\ UNCHANGED <<reactions, typing, revokedJtis, inflight>>

\* the clock advances by one millisecond, up to `max`
TickTo(max) ==
    /\ now < max
    /\ now' = now + 1
    /\ UNCHANGED <<conversations, messages, convHide, msgHide, reads, resp, chain>>
    /\ UNCHANGED <<reactions, typing, revokedJtis, inflight>>

\* ------------------------------------------- DELETE /api/conversations/:id
\* faulty variant: the update branch refreshes hiddenAt and keeps visibleFrom
UpsertHideKeepsWindow(u, c) ==
    [k \in DOMAIN convHide \cup {<<c, u>>} |->
        IF k # <<c, u>> THEN convHide[k]
        ELSE IF k \in DOMAIN convHide
        THEN [convHide[k] EXCEPT !.hiddenAt = now]
        ELSE HideRow(now, Null)]

\* faulty variant: the update is not restricted to the caller's row
UpsertHideEveryRow(u, c) ==
    [k \in DOMAIN convHide \cup {<<c, u>>} |->
        IF k[1] = c THEN HideRow(now, Null) ELSE convHide[k]]

\* the upsert: update {hiddenAt: new Date(), visibleFrom: null},
\* create {visibleFrom: null} with hiddenAt DEFAULT CURRENT_TIMESTAMP
UpsertHide(u, c) ==
    [k \in DOMAIN convHide \cup {<<c, u>>} |->
        IF k = <<c, u>> THEN HideRow(now, Null) ELSE convHide[k]]

HideConversation(u, c) ==
    /\ \/ /\ ~IsParticipant(u, c)
          /\ resp' = Reply("hideConversation", 403)
          /\ UNCHANGED <<convHide, chain>>
       \/ /\ IsParticipant(u, c)
          /\ convHide' = UpsertHide(u, c)
          /\ resp' = Reply("hideConversation", 200)
          /\ chain' = NoChain
    /\ UNCHANGED <<now, conversations, messages, msgHide, reads>>
    /\ UNCHANGED <<reactions, typing, revokedJtis, inflight>>

\* ------------------------------------------------ POST /api/conversations/dm
\* prisma.conversation.findFirst: a non-group conversation whose participants
\* are all among {u, target} and include both
ExistingDMs(u, target) ==
    {cv \in Range(conversations) :
        /\ ~cv.isGroup
        /\ cv.participants \subseteq {u, target}
        /\ u \in cv.participants
        /\ target \in cv.participants}

\* faulty variant: an existing window is kept, only a null one is set
ReopenHideOnlyNull(u, c) ==
    IF IsNull(convHide[<<c, u>>].visibleFrom)
    THEN [convHide EXCEPT ![<<c, u>>].visibleFrom = Some(now)]
    ELSE convHide

\* prisma.conversationHide.update({data: {visibleFrom: new Date()}})
ReopenHide(u, c) ==
    [convHide EXCEPT ![<<c, u>>].visibleFrom = Some(now)]

OpenDirectMessage(u, target) ==
    /\ \/ /\ IsNull(target)
          /\ resp' = Reply("openDirectMessage", 400)
          /\ UNCHANGED <<conversations, convHide, chain>>
       \/ /\ ~IsNull(target)
          /\ \E existing \in ExistingDMs(u, Val(target)) :
                /\ \/ /\ HasHide(u, existing.id)
                      /\ convHide' = ReopenHide(u, existing.id)
                      /\ chain' = NoChain
                   \/ /\ ~HasHide(u, existing.id)
                      /\ UNCHANGED <<convHide, chain>>
                /\ resp' = Reply("openDirectMessage", 200)
                /\ UNCHANGED conversations
       \/ /\ ~IsNull(target)
          /\ ExistingDMs(u, Val(target)) = {}
          /\ Val(target) = u
          \* participants.create [{u}, {u}] breaks Participant's unique
          \* (conversationId, userId): the nested write rolls back
          /\ resp' = Reply("openDirectMessage", 500)
          /\ UNCHANGED <<conversations, convHide, chain>>
       \/ /\ ~IsNull(target)
          /\ ExistingDMs(u, Val(target)) = {}
          /\ Val(target) # u
          /\ Len(conversations) < MaxConvs
          /\ conversations' = Append(conversations,
                Conversation(Len(conversations) + 1, u, Val(target), now))
          /\ resp' = Reply("openDirectMessage", 201)
          /\ UNCHANGED <<convHide, chain>>
    /\ UNCHANGED <<now, messages, msgHide, reads>>
    /\ UNCHANGED <<reactions, typing, revokedJtis, inflight>>

\* --------------------------------------------- POST /api/messages/:id/hide
\* faulty variant: a row is created whether or not one is there
UpsertMessageHideAlwaysCreates(u, m) ==
    msgHide (+) SetToBag({<<m, u>>})

\* prisma.messageHide.upsert({update: {}, create: {messageId, userId}})
UpsertMessageHide(u, m) ==
    IF BagIn(<<m, u>>, msgHide) THEN msgHide
    ELSE msgHide (+) SetToBag({<<m, u>>})

HideMessage(u, m) ==
    /\ \/ /\ ~MessageExists(m)
          /\ resp' = Reply("hideMessage", 404)
          /\ UNCHANGED <<msgHide, chain>>
       \/ /\ MessageExists(m)
          /\ messages[m].senderId = u
          /\ resp' = Reply("hideMessage", 400)
          /\ UNCHANGED <<msgHide, chain>>
       \/ /\ MessageExists(m)
          /\ messages[m].senderId # u
          /\ BagIn(<<m, u>>, msgHide) \/ BagCardinality(msgHide) < MaxMsgHides
          /\ msgHide' = UpsertMessageHide(u, m)
          /\ resp' = Reply("hideMessage", 200)
          /\ chain' = NoChain
    /\ UNCHANGED <<now, conversations, messages, convHide, reads>>
    /\ UNCHANGED <<reactions, typing, revokedJtis, inflight>>

\* -------------------------------------------------- DELETE /api/messages/:id
\* faulty variant: the update is not made
SoftDeleteSkipped(m) == messages

\* faulty variant: the row is removed
HardDelete(m) ==
    SubSeq(messages, 1, m - 1) \o SubSeq(messages, m + 1, Len(messages))

\* prisma.message.update({data: {deletedAt: new Date()}})
SoftDelete(m) ==
    [messages EXCEPT ![m].deletedAt = Some(now)]

DeleteMessage(u, m) ==
    /\ \/ /\ ~MessageExists(m)
          /\ resp' = Reply("deleteMessage", 404)
          /\ UNCHANGED <<messages, chain>>
       \/ /\ MessageExists(m)
          /\ messages[m].senderId # u
          /\ resp' = Reply("deleteMessage", 403)
          /\ UNCHANGED <<messages, chain>>
       \/ /\ MessageExists(m)
          /\ messages[m].senderId = u
          /\ \/ ~IsNull(messages[m].deletedAt)
             \/ Cardinality({k \in Range(messages) : ~IsNull(k.deletedAt)}) < MaxDeletes
          /\ messages' = SoftDelete(m)
          /\ resp' = Reply("deleteMessage", 200)
          /\ chain' = NoChain
    /\ UNCHANGED <<now, conversations, convHide, msgHide, reads>>
    /\ UNCHANGED <<reactions, typing, revokedJtis, inflight>>

\* ----------------------------------------- /api/messages/:convId/typing
\* prisma.conversation rows: the target of TypingStatus_conversationId_fkey
ConversationExists(c) == \E cv \in Range(conversations) : cv.id = c

\* prisma.typingStatus.upsert with expiresAt = Date.now() + 5000
UpsertTyping(u, c) ==
    [k \in DOMAIN typing \cup {<<c, u>>} |->
        IF k = <<c, u>> THEN now + TypingTtl ELSE typing[k]]

PingTyping(u, c) ==
    /\ \/ /\ ~ConversationExists(c)
          /\ resp' = Reply("pingTyping", 500)
          /\ UNCHANGED typing
       \/ /\ ConversationExists(c)
          /\ typing' = UpsertTyping(u, c)
          /\ resp' = Reply("pingTyping", 200)
    /\ UNCHANGED <<now, conversations, messages, convHide, msgHide, reads, chain>>
    /\ UNCHANGED <<reactions, revokedJtis, inflight>>

\* typingStatus.findMany where {conversationId, userId: not me,
\* expiresAt: gt now}, mapped to userId
TypingUsers(u, c) ==
    {k[2] : k \in {h \in DOMAIN typing :
                        h[1] = c /\ h[2] # u /\ typing[h] > now}}

ListTyping(u, c) ==
    /\ resp' = ReplyBody("listTyping", 200, TypingUsers(u, c))
    /\ UNCHANGED <<now, conversations, messages, convHide, msgHide, reads, chain>>
    /\ UNCHANGED <<reactions, typing, revokedJtis, inflight>>

\* ---------------------------------------------- POST /api/messages/:id/react
\* request bodies: emoji absent, empty, or one of two emoji
EmojiInputs == {Null, Some(""), Some("+1"), Some("joy")}

\* prisma.messageReaction.findUnique on (messageId, userId, emoji)
ExistingReaction(rs, m, u, e) == <<m, u, e>> \in rs

\* faulty variant: the delete takes every reaction of the user on the message
DeleteReactionEveryEmoji(rs, m, u, e) ==
    {r \in rs : ~(r[1] = m /\ r[2] = u)}

\* prisma.messageReaction.delete on (messageId, userId, emoji)
DeleteReaction(rs, m, u, e) == rs \ {<<m, u, e>>}

\* prisma.messageReaction.create({messageId, userId, emoji})
CreateReaction(rs, m, u, e) == rs \cup {<<m, u, e>>}

\* the MessageReaction rows after the handler has run on the rows rs
ReactionsAfter(rs, m, u, e) ==
    IF ExistingReaction(rs, m, u, e) THEN DeleteReaction(rs, m, u, e)
    ELSE CreateReaction(rs, m, u, e)

\* the body of the answer: {removed: true} or {added: true}
ToggleBody(rs, m, u, e) ==
    IF ExistingReaction(rs, m, u, e) THEN "removed" ELSE "added"

ToggleReaction(u, m, emoji) ==
    /\ \/ /\ ~Truthy(emoji)
          /\ resp' = Reply("toggleReaction", 400)
          /\ UNCHANGED reactions
       \/ /\ Truthy(emoji)
          /\ ~ExistingReaction(reactions, m, u, Val(emoji))
          /\ ~MessageExists(m)
          \* the create breaks MessageReaction_messageId_fkey: the catch
          \* block answers 500
          /\ resp' = Reply("toggleReaction", 500)
          /\ UNCHANGED reactions
       \/ /\ Truthy(emoji)
          /\ ExistingReaction(reactions, m, u, Val(emoji)) \/ MessageExists(m)
          /\ \/ ExistingReaction(reactions, m, u, Val(emoji))
             \/ Cardinality(reactions) < MaxReactions
          /\ reactions' = ReactionsAfter(reactions, m, u, Val(emoji))
          /\ resp' = ReplyBody("toggleReaction", 200,
                               ToggleBody(reactions, m, u, Val(emoji)))
    /\ UNCHANGED <<now, conversations, messages, convHide, msgHide, reads, chain>>
    /\ UNCHANGED <<typing, revokedJtis, inflight>>

\* ------------------------------------------------- POST /api/messages/:convId
\* request bodies: content absent, empty, blank, or text (with and without
\* surrounding blanks)
ContentInputs == {Null, Some(""), Some(" "), Some("hi"), Some(" hi ")}

\* String.prototype.trim on the bodies above
Trim(s) == IF s = " " THEN "" ELSE IF s = " hi " THEN "hi" ELSE s

\* content?.trim() is truthy
HasText(content) == ~IsNull(content) /\ Trim(Val(content)) # ""

\* file.mimetype.startsWith('image/') ? 'IMAGE' : 'FILE'
FileType(mimetype) == IF mimetype = "image/png" THEN "IMAGE" ELSE "FILE"

\* number of rows the request creates: one per file, one for the text
RowCount(nfiles, content) == nfiles + (IF HasText(content) THEN 1 ELSE 0)

\* creation timestamps of k rows written one after the other, starting now:
\* each insert happens in the millisecond of the previous one or later
Stamps(k) ==
    {ts \in [1..k -> now..MaxTime] :
        /\ ts[1] = now
        /\ \A i \in 1..(k - 1) : ts[i + 1] - ts[i] \in {0, 1}}

\* the rows pushed to `messages`: the files first, then the text
NewRows(u, c, nfiles, content, ts) ==
    [i \in 1..RowCount(nfiles, content) |->
        IF i <= nfiles
        THEN Message(Len(messages) + i, c, u, FileType("image/png"), Null,
                     Some("url"), ts[i])
        ELSE Message(Len(messages) + i, c, u, "TEXT",
                     Some(Trim(Val(content))), Null, ts[i])]

\* faulty variant: the sender's record is rewritten whatever its visibleFrom
RestoreOwnAnyRecord(h, u, c, t) ==
    [k \in DOMAIN h |->
        IF k[1] = c /\ k[2] = u
        THEN [h[k] EXCEPT !.visibleFrom = Some(t)] ELSE h[k]]

\* updateMany where {conversationId, userId: sender, visibleFrom: null}
RestoreOwn(h, u, c, t) ==
    [k \in DOMAIN h |->
        IF k[1] = c /\ k[2] = u /\ IsNull(h[k].visibleFrom)
        THEN [h[k] EXCEPT !.visibleFrom = Some(t)] ELSE h[k]]

\* faulty variant: the records of the other participants are left hidden
RestoreOthersSkipped(h, u, c, t) == h

\* faulty variant: the records of the others are rewritten, window or not
RestoreOthersAnyRecord(h, u, c, t) ==
    [k \in DOMAIN h |->
        IF k[1] = c /\ k[2] # u
        THEN [h[k] EXCEPT !.visibleFrom = Some(t)] ELSE h[k]]

\* updateMany where {conversationId, userId: {not: sender}, visibleFrom: null}
RestoreOthers(h, u, c, t) ==
    [k \in DOMAIN h |->
        IF k[1] = c /\ k[2] # u /\ IsNull(h[k].visibleFrom)
        THEN [h[k] EXCEPT !.visibleFrom = Some(t)] ELSE h[k]]

SendMessage(u, c, nfiles, content) ==
    /\ \/ /\ ~IsParticipant(u, c)
          /\ resp' = Reply("sendMessage", 403)
          /\ UNCHANGED <<now, messages, convHide, chain>>
       \/ /\ IsParticipant(u, c)
          /\ ~Truthy(content) /\ nfiles = 0
          /\ resp' = Reply("sendMessage", 400)
          /\ UNCHANGED <<now, messages, convHide, chain>>
       \/ /\ IsParticipant(u, c)
          /\ Truthy(content) \/ nfiles > 0
          /\ RowCount(nfiles, content) = 0
          \* messages[0].createdAt on the empty array throws: the catch
          \* block answers 500 and neither updateMany runs
          /\ resp' = Reply("sendMessage", 500)
          /\ UNCHANGED <<now, messages, convHide, chain>>
       \/ /\ IsParticipant(u, c)
          /\ Truthy(content) \/ nfiles > 0
          /\ RowCount(nfiles, content) > 0
          /\ \E ts \in Stamps(RowCount(nfiles, content)) :
                LET rows == NewRows(u, c, nfiles, content, ts) IN
                /\ messages' = messages \o rows
                /\ convHide' = RestoreOthers(
                        RestoreOwn(convHide, u, c, rows[1].createdAt),
                        u, c, rows[1].createdAt)
                /\ now' = ts[Len(rows)]
                /\ resp' = Reply("sendMessage", 201)
          /\ chain' = NoChain
    /\ UNCHANGED <<conversations, msgHide, reads>>
    /\ UNCHANGED <<reactions, typing, revokedJtis, inflight>>

\* ------------------------------------------------- GET /api/messages/:convId
\* the orders in which the store may return the rows S for
\* orderBy: {createdAt: 'desc'}: rows of equal createdAt come in any order
RECURSIVE DescOrders(_)
DescOrders(S) ==
    IF S = {} THEN {<<>>}
    ELSE LET top == {m \in S : \A k \in S : k.createdAt <= m.createdAt}
         IN UNION {{<<m>> \o s : s \in DescOrders(S \ {m})} : m \in top}

Reverse(s) == [i \in 1..Len(s) |-> s[Len(s) + 1 - i]]

Take(s, n) == SubSeq(s, 1, IF Len(s) < n THEN Len(s) ELSE n)

Skip(s, n) == SubSeq(s, n + 1, Len(s))

\* the row res.json serialises: findMany with `include` and no `select`
\* returns every scalar column of Message
ServedRow(m) == m

\* faulty variant: a MessageHide row of any user removes the message
MessageWhereAnyHide(m, u, c) ==
    /\ m.conversationId = c
    /\ \A a \in Users : ~BagIn(<<m.id, a>>, msgHide)
    /\ (HasHide(u, c) /\ ~IsNull(HideRecord(u, c).visibleFrom))
          => m.createdAt >= Val(HideRecord(u, c).visibleFrom)

\* faulty variant: a caller whose record has visibleFrom = null gets no row
MessageWhereHiddenSeesNone(m, u, c) ==
    /\ m.conversationId = c
    /\ ~BagIn(<<m.id, u>>, msgHide)
    /\ ~(HasHide(u, c) /\ IsNull(HideRecord(u, c).visibleFrom))
    /\ (HasHide(u, c) /\ ~IsNull(HideRecord(u, c).visibleFrom))
          => m.createdAt >= Val(HideRecord(u, c).visibleFrom)

\* the where clause of findMany: the conversation's rows with no MessageHide
\* of the caller and, when the caller's hide record has a visibleFrom,
\* createdAt >= visibleFrom
MessageWhere(m, u, c) ==
    /\ m.conversationId = c
    /\ ~BagIn(<<m.id, u>>, msgHide)
    /\ (HasHide(u, c) /\ ~IsNull(HideRecord(u, c).visibleFrom))
          => m.createdAt >= Val(HideRecord(u, c).visibleFrom)

\* cursor: {id}: the store selects the rows whose ordering column is at or
\* before the cursor row's in the order of the query
FromCursor(rows, cursor) ==
    IF IsNull(cursor) THEN rows
    ELSE IF ~MessageExists(Val(cursor)) THEN {}
    ELSE {m \in rows : m.createdAt <= messages[Val(cursor)].createdAt}

\* the ordering column is not unique, so the client library cuts the ordered
\* result at the cursor row itself: the rows up to the cursor row are
\* dropped, then skip: 1 drops the cursor row; a result that does not hold
\* the cursor row yields nothing
AfterCursor(o, cursor) ==
    IF IsNull(cursor) THEN o
    ELSE LET at == {i \in 1..Len(o) : o[i].id = Val(cursor)}
         IN IF at = {} THEN <<>> ELSE Skip(o, CHOOSE i \in at : TRUE)

\* the results findMany may give: newest first, cut at the cursor, take: limit
FindManyMessages(u, c, cursor) ==
    {Take(AfterCursor(o, cursor), limit) :
        o \in DescOrders(FromCursor(
                {m \in Range(messages) : MessageWhere(m, u, c)}, cursor))}

\* faulty variant: the caller's own messages count as unread too
UnreadMessagesOwnToo(rds, found, u) ==
    {m \in Range(found) : ~BagIn(<<m.id, u>>, rds)}

\* messages.filter(senderId !== me && !reads.some(userId === me)), over the
\* MessageRead rows `rds`
UnreadMessages(rds, found, u) ==
    {m \in Range(found) : m.senderId # u /\ ~BagIn(<<m.id, u>>, rds)}

\* faulty variant: a plain insert of every row of the list
CreateManyReadsNoSkip(rds, rows, u) ==
    rds (+) SetToBag({<<m.id, u>> : m \in rows})

\* messageRead.createMany({data, skipDuplicates: true})
CreateManyReads(rds, rows, u) ==
    rds (+) SetToBag({<<m.id, u>> : m \in {r \in rows : ~BagIn(<<r.id, u>>, rds)}})

\* faulty variant: a row is inserted for every message of another sender,
\* read before or not
ReadsAfterNoDedup(rds, found, u) ==
    rds (+) SetToBag({<<m.id, u>> : m \in {r \in Range(found) : r.senderId # u}})

\* the MessageRead table after the handler has served the rows `found`
ReadsAfter(rds, found, u) ==
    IF UnreadMessages(rds, found, u) # {}
    THEN CreateManyReads(rds, UnreadMessages(rds, found, u), u)
    ELSE rds

\* messages.reverse() reverses in place before nextCursor reads messages[0]:
\* the cursor is the oldest row of the page
NextCursor(found) ==
    IF Len(found) = limit THEN Some(Reverse(found)[1].id) ELSE Null

Ids(rows) == [i \in 1..Len(rows) |-> rows[i].id]

\* the handler past the participant check, for the rows `found` the store
\* returned: insert the missing MessageRead rows, answer 200
ListMessagesReply(u, c, cursor, found) ==
    /\ reads' = ReadsAfter(reads, found, u)
    /\ resp' = Reply("listMessages", 200)

ListMessages(u, c, cursor) ==
    /\ \/ /\ ~IsParticipant(u, c)
          /\ resp' = Reply("listMessages", 403)
          /\ UNCHANGED reads
       \/ /\ IsParticipant(u, c)
          /\ \E found \in FindManyMessages(u, c, cursor) :
                ListMessagesReply(u, c, cursor, found)
    /\ UNCHANGED <<now, conversations, messages, convHide, msgHide, chain>>
    /\ UNCHANGED <<reactions, typing, revokedJtis, inflight>>

\* a client paging through a conversation: the first call carries no
\* cursor, each later call the nextCursor of the call before; `chain` keeps
\* the pages received so far
ChainAfter(u, c, cursor, found) ==
    IF IsNull(cursor)
    THEN [user |-> u, conv |-> c, pages |-> <<Ids(Reverse(found))>>,
          next |-> NextCursor(found), open |-> TRUE]
    ELSE [chain EXCEPT !.pages = Append(@, Ids(Reverse(found))),
                       !.next = NextCursor(found)]

FetchPage(u, c, cursor) ==
    /\ IsParticipant(u, c)
    /\ \/ IsNull(cursor)
       \/ /\ chain.open /\ chain.user = u /\ chain.conv = c
          /\ ~IsNull(cursor) /\ chain.next = cursor
          /\ Len(chain.pages) < MaxPages
    /\ \E found \in FindManyMessages(u, c, cursor) :
          /\ ListMessagesReply(u, c, cursor, found)
          /\ chain' = ChainAfter(u, c, cursor, found)
    /\ UNCHANGED <<now, conversations, messages, convHide, msgHide>>
    /\ UNCHANGED <<reactions, typing, revokedJtis, inflight>>

\* --------------------------------------------------- GET /api/conversations
\* hides.filter(h => !h.visibleFrom).map(h => h.conversationId)
TrulyHidden(u) ==
    {k[1] : k \in {h \in DOMAIN convHide :
                        h[2] = u /\ IsNull(convHide[h].visibleFrom)}}

\* visibleFromMap.get(conv.id): the visibleFrom of a restarted conversation
VisibleFromOf(u, c) ==
    IF HasHide(u, c) /\ ~IsNull(HideRecord(u, c).visibleFrom)
    THEN HideRecord(u, c).visibleFrom ELSE Null

\* conversation.findMany where {participants: some me, id: notIn trulyHidden}
ListedConversations(u) ==
    {cv \in Range(conversations) :
        u \in cv.participants /\ cv.id \notin TrulyHidden(u)}

\* lastMessageInclude: where {deletedAt: null}, createdAt desc, take 1
LastMessages(c) ==
    {Take(o, 1) : o \in DescOrders({m \in Range(messages) :
                        m.conversationId = c /\ IsNull(m.deletedAt)})}

\* faulty variant: the preview is never dropped
PreviewNeverSuppressed(u, c, last) == last

\* the preview is dropped when it is older than visibleFrom
Preview(u, c, last) ==
    IF /\ ~IsNull(VisibleFromOf(u, c))
       /\ Len(last) > 0
       /\ last[1].createdAt < Val(VisibleFromOf(u, c))
    THEN <<>> ELSE last

\* faulty variant: the count runs over the whole history
UnreadCountWholeHistory(u, c) ==
    Cardinality({m \in Range(messages) :
        /\ m.conversationId = c
        /\ m.senderId # u
        /\ IsNull(m.deletedAt)
        /\ ~BagIn(<<m.id, u>>, reads)})

\* prisma.message.count: not mine, not deleted, not read by me, in the window
UnreadCount(u, c) ==
    Cardinality({m \in Range(messages) :
        /\ m.conversationId = c
        /\ m.senderId # u
        /\ IsNull(m.deletedAt)
        /\ ~BagIn(<<m.id, u>>, reads)
        /\ ~IsNull(VisibleFromOf(u, c))
              => m.createdAt >= Val(VisibleFromOf(u, c))})

ConversationEntry(u, cv, last) ==
    [id |-> cv.id, createdAt |-> cv.createdAt,
     messages |-> Preview(u, cv.id, last),
     unreadCount |-> UnreadCount(u, cv.id)]

\* a.messages[0]?.createdAt ?? a.createdAt
SortTime(e) ==
    IF Len(e.messages) > 0 THEN e.messages[1].createdAt ELSE e.createdAt

\* Array.prototype.sort with (a, b) => bTime - aTime: stable, newest first
InsertByTime(s, e) ==
    LET n == Cardinality({i \in 1..Len(s) : SortTime(s[i]) >= SortTime(e)})
    IN SubSeq(s, 1, n) \o <<e>> \o SubSeq(s, n + 1, Len(s))

RECURSIVE SortByTime(_)
SortByTime(s) ==
    IF s = <<>> THEN <<>>
    ELSE InsertByTime(SortByTime(SubSeq(s, 1, Len(s) - 1)), s[Len(s)])

\* the responses the handler may give: the store chooses the order of
\* conversations of equal createdAt and the latest message among equals
ListConversationsResults(u) ==
    LET ids == {cv.id : cv \in ListedConversations(u)}
        lasts == {f \in [ids -> UNION {LastMessages(c) : c \in ids}] :
                        \A c \in ids : f[c] \in LastMessages(c)}
    IN {SortByTime([i \in 1..Len(o) |-> ConversationEntry(u, o[i], f[o[i].id])]) :
            o \in DescOrders(ListedConversations(u)), f \in lasts}

ListConversations(u) ==
    /\ resp' = Reply("listConversations", 200)
    /\ UNCHANGED <<now, conversations, messages, convHide, msgHide, reads, chain>>
    /\ UNCHANGED <<reactions, typing, revokedJtis, inflight>>

\* --------------------------------- GET /api/messages/:conversationId/attachments
\* message.findMany where {conversationId, type in [IMAGE, FILE],
\* deletedAt: null, fileUrl: not null}
AttachmentWhere(m, c) ==
    /\ m.conversationId = c
    /\ m.type \in {"IMAGE", "FILE"}
    /\ IsNull(m.deletedAt)
    /\ ~IsNull(m.fileUrl)

\* the lists the handler may serve, newest first
Attachments(c) ==
    DescOrders({m \in Range(messages) : AttachmentWhere(m, c)})

ListAttachments(u, c) ==
    /\ \/ /\ ~IsParticipant(u, c)
          /\ resp' = Reply("listAttachments", 403)
       \/ /\ IsParticipant(u, c)
          /\ \E found \in Attachments(c) :
                resp' = ReplyBody("listAttachments", 200, Ids(found))
    /\ UNCHANGED <<now, conversations, messages, convHide, msgHide, reads, chain>>
    /\ UNCHANGED <<reactions, typing, revokedJtis, inflight>>

\* ----------------------------------------------------------- specifications
Targets == {Null} \cup {Some(x) : x \in Users}
Cursors == {Null} \cup {Some(m) : m \in MsgIds}
PagedCursors == {Null} \cup {Some(m) : m \in PagedIds}

\* the ledger has room for the rows of one more request
Room(max, nfiles, content) == Len(messages) + RowCount(nfiles, content) <= max

\* the hide/restart state machine with the two list handlers
Next ==
    \/ Tick
    \/ \E u \in Users, c \in ConvIds : HideConversation(u, c)
    \/ \E u \in Users, t \in Targets : OpenDirectMessage(u, t)
    \/ \E u \in Users, c \in ConvIds, n \in 0..MaxFiles, t \in ContentInputs :
          Room(MaxMsgs, n, t) /\ SendMessage(u, c, n, t)
    \/ \E u \in Users, c \in ConvIds, k \in Cursors : ListMessages(u, c, k)
    \/ \E u \in Users : ListConversations(u)

Spec == Init /\ [][Next]_vars

\* the message ledger with per-message hides, soft deletes and reads
NextLedger ==
    \/ Tick
    \/ \E c \in ConvIds : HideConversation("A", c)
    \/ \E u \in Users, c \in ConvIds, n \in 0..MaxFiles, t \in ContentInputs :
          Room(MaxMsgs, n, t) /\ SendMessage(u, c, n, t)
    \/ \E u \in Members, m \in MsgIds : HideMessage(u, m)
    \/ \E u \in Members, m \in MsgIds : DeleteMessage(u, m)
    \/ \E u \in Users, c \in ConvIds, k \in Cursors : ListMessages(u, c, k)

SpecLedger == Init /\ [][NextLedger]_vars

\* a client paging through a conversation between sends
NextPaging ==
    \/ Tick
    \/ \E u \in Members, c \in ConvIds, n \in 0..MaxFiles, t \in ContentInputs :
          Room(MaxPaged, n, t) /\ SendMessage(u, c, n, t)
    \/ \E c \in ConvIds, k \in PagedCursors : FetchPage("A", c, k)

SpecPaging == Init /\ [][NextPaging]_vars

\* the per-message toggles: reactions, per-message hides and soft deletes
NextToggles ==
    \/ Tick
    \/ \E u \in Members, c \in ConvIds, n \in 0..MaxFiles :
          Room(MaxMsgs, n, Null) /\ SendMessage(u, c, n, Null)
    \/ \E u \in {"A", "C"}, m \in MsgIds, e \in EmojiInputs : ToggleReaction(u, m, e)
    \/ \E u \in Users, m \in MsgIds : HideMessage(u, m)
    \/ \E u \in Members, m \in MsgIds : DeleteMessage(u, m)
    \/ \E c \in ConvIds : ListMessages("A", c, Null)

SpecToggles == Init /\ [][NextToggles]_vars

\* the conversation list of "A", who has a DM with "B" (opened one
\* millisecond before time 0) and one with "C" (opened at time 0)
ListedConvs == {1, 2}

InitListed ==
    /\ now = 0
    /\ conversations = <<Conversation(1, "A", "B", -1), Conversation(2, "A", "C", 0)>>
    /\ messages = <<>>
    /\ convHide = <<>>
    /\ msgHide = EmptyBag
    /\ reads = EmptyBag
    /\ resp = NoResp
    /\ chain = NoChain
    /\ reactions = {}
    /\ typing = <<>>
    /\ revokedJtis = {}
    /\ inflight = <<>>

NextListed ==
    \/ TickTo(MaxTime + 1)
    \/ \E c \in ListedConvs : HideConversation("A", c)
    \/ \E t \in {"B", "C"} : OpenDirectMessage("A", Some(t))
    \/ \E u \in Users, c \in ListedConvs :
          Room(MaxMsgs, 0, Some("hi")) /\ SendMessage(u, c, 0, Some("hi"))
    \/ \E u \in Members, m \in MsgIds : DeleteMessage(u, m)
    \/ ListMessages("A", 1, Null)
    \/ ListConversations("A")

SpecListed == InitListed /\ [][NextListed]_vars

\* the typing signal under a running clock
NextTyping ==
    \/ TickTo(MaxClock)
    \/ \E u \in Users, c \in ConvIds \cup {MaxConvs + 1} : PingTyping(u, c)
    \/ \E u \in Users, c \in ConvIds : ListTyping(u, c)

SpecTyping == Init /\ [][NextTyping]_vars

\* ------------------------------------------------- requireAuth and sessions
\* seconds of leeway jwtDecrypt gives an expired token, in clock units
clockTolerance == 15

\* the tokens a request may carry: `sealed` tells whether the token was
\* encrypted with SECRET, `exp` is its expiry claim.  Two sessions of "A"
\* (the second about to expire), one of "B", and a forged token
Tokens ==
    {[userId |-> "A", jti |-> "j1", exp |-> 100, sealed |-> TRUE],
     [userId |-> "A", jti |-> "j2", exp |-> -13, sealed |-> TRUE],
     [userId |-> "B", jti |-> "j3", exp |-> 100, sealed |-> TRUE],
     [userId |-> "A", jti |-> "j4", exp |-> 100, sealed |-> FALSE]}

\* req.cookies?.SERVER_COOKIE
Cookies == {Null} \cup {Some(t) : t \in Tokens}

\* jwtDecrypt(token, SECRET, {clockTolerance}) does not throw
Decrypts(t) == t.sealed /\ t.exp + clockTolerance > now

\* faulty variant: the blocklist is not consulted
ValidateSessionNoBlocklist(t) ==
    IF Decrypts(t) THEN Some(t.userId) ELSE Null

\* validateSession: the user id of the session, or null
ValidateSession(t) ==
    IF Decrypts(t) /\ t.jti \notin revokedJtis THEN Some(t.userId) ELSE Null

\* deleteSession: the blocklist after revoking the token
DeleteSession(t) ==
    IF Decrypts(t) THEN revokedJtis \cup {t.jti} ELSE revokedJtis

\* POST /api/auth/logout past requireAuth
Logout(k) ==
    /\ revokedJtis' = DeleteSession(Val(k))
    /\ resp' = Reply("logout", 200)
    /\ UNCHANGED <<now, conversations, messages, convHide, msgHide, reads, chain>>
    /\ UNCHANGED <<reactions, typing, inflight>>

\* the requests of the model
Requests ==
    {[op |-> "logout"], [op |-> "sendMessage"], [op |-> "hideConversation"]}

\* the handler behind requireAuth, run for user u
Handler(u, k, req) ==
    CASE req.op = "logout" -> Logout(k)
      [] req.op = "sendMessage" ->
            Room(MaxMsgs, 0, Some("hi")) /\ SendMessage(u, 1, 0, Some("hi"))
      [] req.op = "hideConversation" -> HideConversation(u, 1)

\* requireAuth in front of a handler: 401 without a cookie or when
\* validateSession gives null, else next() with req.userId set
Request(k, req) ==
    IF IsNull(k) \/ IsNull(ValidateSession(Val(k)))
    THEN /\ resp' = Reply("requireAuth", 401)
         /\ UNCHANGED <<now, conversations, messages, convHide, msgHide, reads, chain>>
         /\ UNCHANGED <<reactions, typing, revokedJtis, inflight>>
    ELSE Handler(Val(ValidateSession(Val(k))), k, req)

NextAuth ==
    \/ TickTo(MaxClock)
    \/ \E k \in Cookies, req \in Requests : Request(k, req)

SpecAuth == Init /\ [][NextAuth]_vars

\* ------------------------------------------------------ requests in flight
\* A handler is a chain of awaits: between two of them the event loop and
\* the database serve other requests.  `inflight` keeps one record per
\* request, with the await it stands at (`pc`), its local variables and its
\* HTTP status once answered; each action below is one await of a handler.
MaxFlights == 2
MaxUploads == 2

Flights == 1..Len(inflight)

Answer(f, status) == [f EXCEPT !.pc = "done", !.status = status]

\* POST /api/messages/:conversationId --------------------------------------
\* the request past multer, with `messages` the local array of created rows;
\* `wrote` and `hidden` record the ConversationHide keys its updateMany calls
\* matched and the users whose record had visibleFrom = null on arrival
SendFlight(u, c, nfiles, content) ==
    [op |-> "sendMessage", userId |-> u, conversationId |-> c,
     files |-> nfiles, content |-> content, pc |-> "files", status |-> 0,
     uploaded |-> 0, messages |-> <<>>, wrote |-> {},
     hidden |-> {p \in Users : HideState(p, c) = "HIDDEN"}]

\* participant.findUnique, then the check of content and files
BeginSend(u, c, nfiles, content) ==
    LET f == SendFlight(u, c, nfiles, content)
        status == IF ~IsParticipant(u, c) THEN 403
                  ELSE IF ~Truthy(content) /\ nfiles = 0 THEN 400 ELSE 0
    IN /\ inflight' = Append(inflight,
                IF status = 0 THEN f ELSE Answer(f, status))
       /\ resp' = IF status = 0 THEN resp ELSE Reply("sendMessage", status)
       /\ UNCHANGED <<now, conversations, messages, convHide, msgHide, reads, chain>>
       /\ UNCHANGED <<reactions, typing, revokedJtis>>

\* faulty variant: an insert in the millisecond of the last row replaces it
CreateMessageLastWins(ms, row) ==
    IF ms # <<>> /\ ms[Len(ms)].createdAt = row.createdAt
    THEN [ms EXCEPT ![Len(ms)] = row] ELSE Append(ms, row)

\* prisma.message.create: one INSERT, createdAt defaults to now()
CreateMessage(ms, row) == Append(ms, row)

\* one turn of the loop over req.files: uploadToCloudinary resolves and the
\* row is created, or it rejects and the catch block answers 500
UploadFile(i) ==
    LET f == inflight[i]
        row == Message(Len(messages) + 1, f.conversationId, f.userId,
                       FileType("image/png"), Null, Some("url"), now)
    IN /\ f.pc = "files" /\ f.uploaded < f.files
       /\ \/ /\ messages' = CreateMessage(messages, row)
             /\ inflight' = [inflight EXCEPT ![i].uploaded = @ + 1,
                                             ![i].messages = Append(@, row)]
             /\ UNCHANGED resp
          \/ /\ inflight' = [inflight EXCEPT ![i] = Answer(f, 500)]
             /\ resp' = Reply("sendMessage", 500)
             /\ UNCHANGED messages
       /\ UNCHANGED <<now, conversations, convHide, msgHide, reads, chain>>
       /\ UNCHANGED <<reactions, typing, revokedJtis>>

\* past the loop: the TEXT row when content?.trim() is truthy; then
\* messages[0].createdAt is read for the first updateMany and throws on the
\* empty array
CreateText(i) ==
    LET f == inflight[i]
        row == Message(Len(messages) + 1, f.conversationId, f.userId,
                       "TEXT", Some(Trim(Val(f.content))), Null, now)
    IN /\ f.pc = "files" /\ f.uploaded = f.files
       /\ IF HasText(f.content)
          THEN /\ messages' = CreateMessage(messages, row)
               /\ inflight' = [inflight EXCEPT ![i].pc = "own",
                                               ![i].messages = Append(@, row)]
               /\ UNCHANGED resp
          ELSE IF f.messages = <<>>
          THEN /\ inflight' = [inflight EXCEPT ![i] = Answer(f, 500)]
               /\ resp' = Reply("sendMessage", 500)
               /\ UNCHANGED messages
          ELSE /\ inflight' = [inflight EXCEPT ![i].pc = "own"]
               /\ UNCHANGED <<messages, resp>>
       /\ UNCHANGED <<now, conversations, convHide, msgHide, reads, chain>>
       /\ UNCHANGED <<reactions, typing, revokedJtis>>

\* the rows an updateMany changed
Written(h, g) == {k \in DOMAIN h : g[k] # h[k]}

\* conversationHide.updateMany for the sender
UpdateOwn(i) ==
    LET f == inflight[i]
        g == RestoreOwn(convHide, f.userId, f.conversationId,
                        f.messages[1].createdAt)
    IN /\ f.pc = "own"
       /\ convHide' = g
       /\ inflight' = [inflight EXCEPT ![i].pc = "others",
                                       ![i].wrote = @ \cup Written(convHide, g)]
       /\ UNCHANGED <<now, conversations, messages, msgHide, reads, resp, chain>>
       /\ UNCHANGED <<reactions, typing, revokedJtis>>

\* conversationHide.updateMany for the other participants, then 201
UpdateOthers(i) ==
    LET f == inflight[i]
        g == RestoreOthers(convHide, f.userId, f.conversationId,
                           f.messages[1].createdAt)
    IN /\ f.pc = "others"
       /\ convHide' = g
       /\ inflight' = [inflight EXCEPT
                ![i] = Answer([f EXCEPT !.wrote = @ \cup Written(convHide, g)],
                              201)]
       /\ resp' = Reply("sendMessage", 201)
       /\ UNCHANGED <<now, conversations, messages, msgHide, reads, chain>>
       /\ UNCHANGED <<reactions, typing, revokedJtis>>

\* GET /api/messages/:conversationId ---------------------------------------
ListFlight(u, c, cursor) ==
    [op |-> "listMessages", userId |-> u, conversationId |-> c,
     cursor |-> cursor, pc |-> "reads", status |-> 0, unreadMessages |-> {}]

\* the participant check, the hide record, findMany and the filter of the
\* rows the caller has not read, over the MessageRead rows findMany included
BeginList(u, c, cursor) ==
    /\ \/ /\ ~IsParticipant(u, c)
          /\ inflight' = Append(inflight, Answer(ListFlight(u, c, cursor), 403))
          /\ resp' = Reply("listMessages", 403)
       \/ /\ IsParticipant(u, c)
          /\ \E found \in FindManyMessages(u, c, cursor) :
                LET unread == UnreadMessages(reads, found, u)
                    f == [ListFlight(u, c, cursor) EXCEPT
                                !.unreadMessages = unread]
                IN /\ inflight' = Append(inflight,
                        IF unread = {} THEN Answer(f, 200) ELSE f)
                   /\ resp' = IF unread = {} THEN Reply("listMessages", 200)
                              ELSE resp
    /\ UNCHANGED <<now, conversations, messages, convHide, msgHide, reads, chain>>
    /\ UNCHANGED <<reactions, typing, revokedJtis>>

\* messageRead.createMany for the unread rows found before, then 200
MarkRead(i) ==
    LET f == inflight[i]
    IN /\ f.op = "listMessages" /\ f.pc = "reads"
       /\ reads' = CreateManyReads(reads, f.unreadMessages, f.userId)
       /\ inflight' = [inflight EXCEPT ![i] = Answer(f, 200)]
       /\ resp' = Reply("listMessages", 200)
       /\ UNCHANGED <<now, conversations, messages, convHide, msgHide, chain>>
       /\ UNCHANGED <<reactions, typing, revokedJtis>>

\* POST /api/conversations/dm ------------------------------------------------
DmFlight(u, target, pc, existing) ==
    [op |-> "openDirectMessage", userId |-> u, targetUserId |-> target,
     pc |-> pc, status |-> 0, existing |-> existing]

\* the check of targetUserId and conversation.findFirst
BeginDm(u, target) ==
    /\ \/ /\ IsNull(target)
          /\ inflight' = Append(inflight,
                Answer(DmFlight(u, target, "done", Null), 400))
          /\ resp' = Reply("openDirectMessage", 400)
       \/ /\ ~IsNull(target)
          /\ \E existing \in ExistingDMs(u, Val(target)) :
                inflight' = Append(inflight,
                    DmFlight(u, target, "existing", Some(existing.id)))
          /\ UNCHANGED resp
       \/ /\ ~IsNull(target)
          /\ ExistingDMs(u, Val(target)) = {}
          /\ inflight' = Append(inflight, DmFlight(u, target, "create", Null))
          /\ UNCHANGED resp
    /\ UNCHANGED <<now, conversations, messages, convHide, msgHide, reads, chain>>
    /\ UNCHANGED <<reactions, typing, revokedJtis>>

\* the branch of an existing conversation: the caller's hide record, when
\* there is one, gets visibleFrom = new Date(); then 200
ReopenDm(i) ==
    LET f == inflight[i]
    IN /\ f.op = "openDirectMessage" /\ f.pc = "existing"
       /\ convHide' = IF HasHide(f.userId, Val(f.existing))
                      THEN ReopenHide(f.userId, Val(f.existing)) ELSE convHide
       /\ inflight' = [inflight EXCEPT ![i] = Answer(f, 200)]
       /\ resp' = Reply("openDirectMessage", 200)
       /\ UNCHANGED <<now, conversations, messages, msgHide, reads, chain>>
       /\ UNCHANGED <<reactions, typing, revokedJtis>>

\* conversation.create with the two participants, then 201; with
\* target = caller the nested write breaks Participant's unique
\* (conversationId, userId) and the catch block answers 500
CreateDm(i) ==
    LET f == inflight[i]
    IN /\ f.op = "openDirectMessage" /\ f.pc = "create"
       /\ IF Val(f.targetUserId) = f.userId
          THEN /\ inflight' = [inflight EXCEPT ![i] = Answer(f, 500)]
               /\ resp' = Reply("openDirectMessage", 500)
               /\ UNCHANGED conversations
          ELSE /\ conversations' = Append(conversations,
                    Conversation(Len(conversations) + 1, f.userId,
                                 Val(f.targetUserId), now))
               /\ inflight' = [inflight EXCEPT
                    ![i] = Answer([f EXCEPT
                                !.existing = Some(Len(conversations) + 1)], 201)]
               /\ resp' = Reply("openDirectMessage", 201)
       /\ UNCHANGED <<now, messages, convHide, msgHide, reads, chain>>
       /\ UNCHANGED <<reactions, typing, revokedJtis>>

\* request bodies of the racing sends: up to MaxUploads rows each
SendInputs ==
    {p \in (0..MaxUploads) \X {Null, Some(" "), Some("hi")} :
        RowCount(p[1], p[2]) <= MaxUploads}

\* sends into a conversation hidden beforehand, await by await
NextRace ==
    \/ Tick
    \/ \E p \in Members : inflight = <<>> /\ HideConversation(p, 1)
    \/ \E u \in Members, p \in SendInputs :
          Len(inflight) < MaxFlights /\ BeginSend(u, 1, p[1], p[2])
    \/ \E i \in Flights : UploadFile(i)
    \/ \E i \in Flights : CreateText(i)
    \/ \E i \in Flights : UpdateOwn(i)
    \/ \E i \in Flights : UpdateOthers(i)

SpecRace == Init /\ [][NextRace]_vars

\* page loads of a participant, await by await, between sends
NextReadRace ==
    \/ Tick
    \/ \E u \in Members :
          Room(MaxMsgs, 0, Some("hi")) /\ SendMessage(u, 1, 0, Some("hi"))
    \/ \E u \in Users, k \in Cursors :
          Len(inflight) < MaxFlights /\ BeginList(u, 1, k)
    \/ \E i \in Flights : MarkRead(i)

SpecReadRace == Init /\ [][NextReadRace]_vars

\* openDirectMessage calls, await by await
NextDmRace ==
    \/ Tick
    \/ HideConversation("A", 1)
    \/ \E u \in Users, t \in Targets :
          Len(inflight) < MaxFlights /\ BeginDm(u, t)
    \/ \E i \in Flights : ReopenDm(i)
    \/ \E i \in Flights : CreateDm(i)
    \/ \E u \in Users : ListConversations(u)

SpecDmRace == Init /\ [][NextDmRace]_vars

\* what a participant is served of files and previews after hiding
NextShelf ==
    \/ Tick
    \/ \E u \in Members, n \in 0..MaxFiles, t \in {Null, Some("hi")} :
          Room(MaxMsgs, n, t) /\ SendMessage(u, 1, n, t)
    \/ \E u \in Members, m \in MsgIds : HideMessage(u, m)
    \/ HideConversation("A", 1)
    \/ OpenDirectMessage("A", Some("B"))
    \/ \E u \in Members, m \in MsgIds : DeleteMessage(u, m)
    \/ \E u \in Users : ListAttachments(u, 1)
    \/ \E u \in Users : ListConversations(u)

SpecShelf == Init /\ [][NextShelf]_vars

\* a client that hides single messages, pages through the history and
\* then loads its conversation list
NextInbox ==
    \/ Tick
    \/ \E u \in Members :
          Room(MaxPaged, 0, Some("hi")) /\ SendMessage(u, 1, 0, Some("hi"))
    \/ \E m \in PagedIds : HideMessage("A", m)
    \/ \E k \in PagedCursors : FetchPage("A", 1, k)
    \/ ListConversations("A")

SpecInbox == Init /\ [][NextInbox]_vars

\* hides and re-opens while text sends are being served, await by await
NextHideRace ==
    \/ Tick
    \/ \E p \in Members : HideConversation(p, 1)
    \/ OpenDirectMessage("A", Some("B"))
    \/ \E u \in Members :
          Len(inflight) < MaxFlights /\ BeginSend(u, 1, 0, Some("hi"))
    \/ \E i \in Flights : CreateText(i)
    \/ \E i \in Flights : UpdateOwn(i)
    \/ \E i \in Flights : UpdateOthers(i)

SpecHideRace == Init /\ [][NextHideRace]_vars

\* ------------------------------------------------------------------ claims
\* the first row a step appended to the ledger
Grew == Len(messages') > Len(messages)
FirstNew == messages'[Len(messages) + 1]

C2_HideAlwaysHides ==
    [][\A u \in Users, c \in ConvIds :
        /\ (resp'.op = "hideConversation" /\ HideConversation(u, c)
                /\ IsParticipant(u, c))
            => /\ HasHide(u, c)'
               /\ convHide'[<<c, u>>] = HideRow(now, Null)
        /\ (HideState(u, c)' = "HIDDEN")
            => \A r \in ListConversationsResults(u)' :
                    \A i \in 1..Len(r) : r[i].id # c
        /\ (HideState(u, c) = "HIDDEN" /\ HideState(u, c)' # "HIDDEN")
            => \/ Grew /\ FirstNew.conversationId = c
               \/ /\ resp'.op = "openDirectMessage"
                  /\ \E t \in Users : OpenDirectMessage(u, Some(t))
    ]_vars

\* "A" has hidden the conversation again after it had been restarted by
\* the row created at time 0: the record is fully hidden, refreshed at 1
C2_Witness ==
    /\ resp = Reply("hideConversation", 200)
    /\ HideState("A", 1) = "HIDDEN"
    /\ HideRecord("A", 1).hiddenAt = 1
    /\ \E i \in 1..Len(messages) :
        messages[i].conversationId = 1 /\ messages[i].createdAt = 0
    /\ \A r \in ListConversationsResults("A") : r = <<>>

\* C3: openDirectMessage(u, t) that finds the existing DM sets the caller's
\* visibleFrom to the time of the call whenever the caller has a hide
\* record (hidden or windowed) and changes nothing else of the hide table;
\* right after, no listMessages page of the caller holds a row created
\* before the call, while the other participant, if nothing is hidden for
\* them, still selects every row of the conversation.  Without a hide
\* record the hide table is unchanged.
C3_ReopenNarrowsWindow ==
    [][\A u \in Users, t \in Users : \A cv \in ExistingDMs(u, t) :
        (resp'.op = "openDirectMessage" /\ OpenDirectMessage(u, Some(t)))
        => IF HasHide(u, cv.id)
           THEN /\ convHide' = [convHide EXCEPT
                        ![<<cv.id, u>>].visibleFrom = Some(now)]
                /\ \A k \in Cursors :
                    \A found \in FindManyMessages(u, cv.id, k)' :
                        \A m \in Range(found) : m.createdAt >= now
                /\ \A b \in cv.participants \ {u} :
                    (~HasHide(b, cv.id) /\ \A m \in MsgIds : ~BagIn(<<m, b>>, msgHide))
                    => {m \in Range(messages') : MessageWhere(m, b, cv.id)'}
                        = {m \in Range(messages) : m.conversationId = cv.id}
           ELSE convHide' = convHide
    ]_vars

\* "A" re-opened the DM at time 1 while holding a hide record made at time
\* 0; a row of time 0 is cut off for "A" and still selected for "B"
C3_Witness ==
    /\ resp = Reply("openDirectMessage", 200)
    /\ now = 1
    /\ HasHide("A", 1)
    /\ HideRecord("A", 1) = HideRow(0, Some(1))
    /\ ~HasHide("B", 1)
    /\ \E i \in 1..Len(messages) :
        /\ messages[i].createdAt = 0
        /\ ~MessageWhere(messages[i], "A", 1)
        /\ MessageWhere(messages[i], "B", 1)

\* C5: a hideConversation step of user a changes no message, no
\* MessageRead or MessageHide row, no conversation and no hide record other
\* than a's own for that conversation; every other participant gets the
\* same listConversations answers (preview and unread count) and the same
\* listMessages pages as before.
C5_HideTouchesOnlyOwnRecord ==
    [][\A a \in Users, c \in ConvIds :
        (resp'.op = "hideConversation" /\ HideConversation(a, c))
        => /\ messages' = messages
           /\ reads' = reads
           /\ msgHide' = msgHide
           /\ conversations' = conversations
           /\ DOMAIN convHide' \subseteq DOMAIN convHide \cup {<<c, a>>}
           /\ \A k \in DOMAIN convHide \ {<<c, a>>} :
                k \in DOMAIN convHide' /\ convHide'[k] = convHide[k]
           /\ \A b \in Users \ {a} : IsParticipant(b, c) =>
                /\ ListConversationsResults(b)' = ListConversationsResults(b)
                /\ \A k \in Cursors :
                    FindManyMessages(b, c, k)' = FindManyMessages(b, c, k)
    ]_vars

\* "A" has just hidden the conversation; "B" has no hide record and still
\* lists it with its unread row
C5_Witness ==
    /\ resp = Reply("hideConversation", 200)
    /\ HideState("A", 1) = "HIDDEN"
    /\ HideState("B", 1) = "VISIBLE_FULL"
    /\ UnreadCount("B", 1) >= 1
    /\ \A r \in ListConversationsResults("B") :
        Len(r) = 1 /\ r[1].id = 1 /\ r[1].unreadCount = UnreadCount("B", 1)

\* C4: for a participant u the messages reachable through listMessages(u, c)
\* (in some page, for some cursor) are exactly the messages of c without a
\* MessageHide row of u that, when u's record carries a visibleFrom, were
\* created at or after it; a MessageHide row of another user removes
\* nothing from u's pages.
C4_ListShowsExactlyVisible ==
    \A u \in Users, c \in ConvIds : IsParticipant(u, c) =>
        LET visible == {m \in Range(messages) :
                /\ m.conversationId = c
                /\ ~BagIn(<<m.id, u>>, msgHide)
                /\ HideState(u, c) = "VISIBLE_WINDOWED"
                      => m.createdAt >= Val(HideRecord(u, c).visibleFrom)}
            reachable == UNION {Range(found) :
                found \in UNION {FindManyMessages(u, c, k) : k \in Cursors}}
        IN /\ reachable = visible
           /\ \A found \in FindManyMessages(u, c, Null) :
                Len(found) = IF Cardinality(visible) < limit
                             THEN Cardinality(visible) ELSE limit
           /\ \A m \in visible, a \in Users \ {u} :
                BagIn(<<m.id, a>>, msgHide) => m \in reachable

\* "A" lists the conversation restarted at time 1: the row of time 0 is
\* outside the window, and the row "B" has hidden for themselves is still on
\* "A"'s first page and on none of "B"'s
C4_Witness ==
    /\ resp = Reply("listMessages", 200)
    /\ HideState("A", 1) = "VISIBLE_WINDOWED"
    /\ \E i, j \in 1..Len(messages) :
        /\ messages[i].createdAt < Val(HideRecord("A", 1).visibleFrom)
        /\ BagIn(<<j, "B">>, msgHide)
        /\ \A found \in FindManyMessages("A", 1, Null) :
                messages[j] \in Range(found) /\ messages[i] \notin Range(found)
        /\ \A found \in FindManyMessages("B", 1, Null) :
                messages[j] \notin Range(found)

\* C8: a listMessages step that serves a page to user u leaves a MessageRead
\* row of u for every message of the page that u did not send; and in every
\* state each MessageRead row (m, u) belongs to a message u did not send and
\* occurs once.
C8_ReadsCoverPageNeverOwn ==
    /\ [](\A m \in MsgIds, u \in Users :
            BagIn(<<m, u>>, reads)
            => /\ MessageExists(m)
               /\ messages[m].senderId # u
               /\ CopiesIn(<<m, u>>, reads) = 1)
    /\ [][\A u \in Users, c \in ConvIds, k \in Cursors :
            (resp' = Reply("listMessages", 200) /\ messages' = messages
                    /\ IsParticipant(u, c))
            => \A found \in FindManyMessages(u, c, k) :
                    ListMessagesReply(u, c, k, found)
                    => \A m \in Range(found) :
                            m.senderId # u => BagIn(<<m.id, u>>, reads')
       ]_vars

\* "A" has listed a page holding a row of their own and a row of "B": the
\* only MessageRead row of "A" is the one for "B"'s message
C8_Witness ==
    /\ resp = Reply("listMessages", 200)
    /\ \E i, j \in 1..Len(messages) :
        /\ messages[i].senderId = "A" /\ messages[j].senderId = "B"
        /\ \A found \in FindManyMessages("A", 1, Null) :
                {messages[i], messages[j]} \subseteq Range(found)
        /\ BagIn(<<j, "A">>, reads)
        /\ ~BagIn(<<i, "A">>, reads)

\* C9: when a listMessages step has served a page to user u, serving the
\* same page to u again from the resulting state succeeds (u is still a
\* participant and the rows the query selects from are untouched) and leaves
\* the MessageRead rows as the first read left them: the receipts of the
\* page's foreign rows added to those there before.
C9_SecondReadChangesNothing ==
    [][\A u \in Users, c \in ConvIds, k \in Cursors :
        (resp' = Reply("listMessages", 200) /\ messages' = messages
                /\ IsParticipant(u, c))
        => \A found \in FindManyMessages(u, c, k) :
                ListMessagesReply(u, c, k, found)
                => /\ IsParticipant(u, c)'
                   /\ UNCHANGED <<conversations, messages, convHide, msgHide>>
                   /\ ReadsAfter(reads', found, u) = reads'
                   /\ BagToSet(reads') =
                        BagToSet(reads) \cup
                            {<<m.id, u>> : m \in {r \in Range(found) : r.senderId # u}}
    ]_vars

\* "B" has read a page with two rows of "A" and both receipts are stored; a
\* further read of the page finds nothing unread
C9_Witness ==
    /\ resp = Reply("listMessages", 200)
    /\ Len(messages) = 2
    /\ \A i \in 1..2 : messages[i].senderId = "A" /\ BagIn(<<i, "B">>, reads)
    /\ \A found \in FindManyMessages("B", 1, Null) :
            Len(found) = 2 /\ UnreadMessages(reads, found, "B") = {}

\* C10: a soft-deleted message keeps its row on the pages of every reader
\* who selects it, and no page serves its content or its file reference.
C10_DeletedContentNotServed ==
    \A u \in Users, c \in ConvIds :
        (resp = Reply("listMessages", 200) /\ IsParticipant(u, c)) =>
        /\ \A m \in Range(messages) :
                (~IsNull(m.deletedAt) /\ MessageWhere(m, u, c))
                => \E k \in Cursors : \E found \in FindManyMessages(u, c, k) :
                        m.id \in Range(Ids(found))
        /\ \A k \in Cursors : \A found \in FindManyMessages(u, c, k) :
                \A i \in 1..Len(found) :
                    ~IsNull(found[i].deletedAt)
                    => /\ IsNull(ServedRow(found[i]).content)
                       /\ IsNull(ServedRow(found[i]).fileUrl)

\* C6: a chain of listMessages calls of one user, the first without a cursor
\* and each later one with the nextCursor of the call before, with no send
\* in between, has on reaching a null nextCursor delivered every message
\* visible to the user exactly once, each page in ascending creation order
\* and no page holding a row newer than a row of the page before it.
C6_ChainDeliversEachOnce ==
    (chain.open /\ IsNull(chain.next)) =>
        LET n == Len(chain.pages)
            at(p, i) == messages[chain.pages[p][i]]
            slots == {<<p, i>> \in (1..n) \X PagedIds : i <= Len(chain.pages[p])}
            visible == {m.id : m \in {r \in Range(messages) :
                                        MessageWhere(r, chain.user, chain.conv)}}
        IN /\ {chain.pages[x[1]][x[2]] : x \in slots} = visible
           /\ \A x, y \in slots :
                chain.pages[x[1]][x[2]] = chain.pages[y[1]][y[2]] => x = y
           /\ \A x, y \in slots :
                (x[1] = y[1] /\ x[2] < y[2])
                => at(x[1], x[2]).createdAt <= at(y[1], y[2]).createdAt
           /\ \A x, y \in slots :
                x[1] < y[1]
                => at(y[1], y[2]).createdAt <= at(x[1], x[2]).createdAt

\* C7: with all creation times distinct, a listMessages page holds at most
\* `limit` rows and carries a nextCursor exactly when a visible message
\* older than every row of the page exists.
C7_CursorIffOlderExists ==
    \A c \in ConvIds :
        (\A i, j \in 1..Len(messages) :
            messages[i].createdAt = messages[j].createdAt => i = j)
        => \A k \in PagedCursors : \A found \in FindManyMessages("A", c, k) :
            /\ Len(found) <= limit
            /\ ~IsNull(NextCursor(found))
                <=> \E m \in Range(messages) :
                        /\ MessageWhere(m, "A", c)
                        /\ Len(found) > 0
                        /\ \A i \in 1..Len(found) : m.createdAt < found[i].createdAt

\* C11: a toggleReaction by user u with emoji e on an existing message m
\* answers "added" and creates the row (m, u, e) when it was absent, answers
\* "removed" and deletes it when it was present, and touches no other
\* reaction row; a second toggleReaction of the same (m, u, e) from the
\* resulting state gives the other answer and restores the MessageReaction
\* rows of before the first.
C11_ToggleTwiceRestores ==
    [][\A u \in Users, m \in MsgIds, e \in {"+1", "joy"} :
        (resp'.op = "toggleReaction" /\ MessageExists(m)
            /\ ToggleReaction(u, m, Some(e)))
        => LET row == <<m, u, e>>
               was == row \in reactions
           IN /\ resp'.status = 200
              /\ resp'.body = IF was THEN "removed" ELSE "added"
              /\ (row \in reactions') = ~was
              /\ reactions' \ {row} = reactions \ {row}
              /\ ToggleBody(reactions', m, u, e)
                    = IF was THEN "added" ELSE "removed"
              /\ ReactionsAfter(reactions', m, u, e) = reactions
    ]_vars

\* "A" has just removed their "+1" from message 1, on which their "joy"
\* stays
C11_Witness ==
    /\ resp = ReplyBody("toggleReaction", 200, "removed")
    /\ MessageExists(1)
    /\ <<1, "A", "+1">> \notin reactions
    /\ <<1, "A", "joy">> \in reactions

\* C12: hideMessage by the sender of an existing message answers 400 and
\* leaves the MessageHide rows as they were; by any other caller it answers
\* 200 and leaves exactly one MessageHide row for (message, caller), whether
\* or not there was one, and every other row as it was.
C12_HideMessageNotOwnOnce ==
    [][\A u \in Users, m \in MsgIds :
        (resp'.op = "hideMessage" /\ MessageExists(m) /\ HideMessage(u, m))
        => IF messages[m].senderId = u
           THEN resp'.status = 400 /\ msgHide' = msgHide
           ELSE /\ resp'.status = 200
                /\ CopiesIn(<<m, u>>, msgHide') = 1
                /\ \A k \in MsgIds \X Users :
                        k # <<m, u>> => CopiesIn(k, msgHide') = CopiesIn(k, msgHide)
    ]_vars

\* "C", who is not the sender, has hidden message 1 of "A" and holds one
\* MessageHide row for it
C12_Witness ==
    /\ resp = Reply("hideMessage", 200)
    /\ MessageExists(1) /\ messages[1].senderId = "A"
    /\ CopiesIn(<<1, "C">>, msgHide) = 1
    /\ BagCardinality(msgHide) = 1

\* C13: deleteMessage of an existing message by a caller who is not its
\* sender answers 403 and leaves the message rows as they were; by the
\* sender it answers 200, sets deletedAt to the time of the call and keeps
\* the row with every other column, and every other row, as it was.
C13_DeleteOnlyBySender ==
    [][\A u \in Users, m \in MsgIds :
        (resp'.op = "deleteMessage" /\ MessageExists(m) /\ DeleteMessage(u, m))
        => IF messages[m].senderId # u
           THEN resp'.status = 403 /\ messages' = messages
           ELSE /\ resp'.status = 200
                /\ Len(messages') = Len(messages)
                /\ messages'[m] = [messages[m] EXCEPT !.deletedAt = Some(now)]
                /\ \A k \in 1..Len(messages) : k # m => messages'[k] = messages[k]
    ]_vars

\* "B" has deleted their message 2 at time 1; the row is there, with its
\* file reference, and message 1 of "A" is untouched
C13_Witness ==
    /\ resp = Reply("deleteMessage", 200)
    /\ Len(messages) = 2
    /\ messages[2].senderId = "B" /\ messages[2].deletedAt = Some(1)
    /\ messages[2].id = 2 /\ ~IsNull(messages[2].fileUrl)
    /\ messages[1].senderId = "A" /\ IsNull(messages[1].deletedAt)

\* C14: listMessages and sendMessage by a user who is not a participant of
\* the conversation answer 403 and leave every table as it was: no message,
\* no MessageRead row, no ConversationHide record is written.
C14_OutsiderChangesNothing ==
    [][\A u \in Users, c \in ConvIds :
        (\A cv \in Range(conversations) : cv.id = c => u \notin cv.participants)
        => /\ resp'.op = "listMessages"
                => \A k \in Cursors :
                        ListMessages(u, c, k)
                        => /\ resp'.status = 403
                           /\ UNCHANGED <<now, conversations, messages,
                                          convHide, msgHide, reads, reactions>>
           /\ resp'.op = "sendMessage"
                => \A n \in 0..MaxFiles, t \in ContentInputs :
                        SendMessage(u, c, n, t)
                        => /\ resp'.status = 403
                           /\ UNCHANGED <<now, conversations, messages,
                                          convHide, msgHide, reads, reactions>>
    ]_vars

\* "C" has been turned away from the conversation of "A" and "B", which
\* holds an unread message and a hidden record
C14_Witness ==
    /\ resp.status = 403
    /\ resp.op \in {"listMessages", "sendMessage"}
    /\ Len(messages) > 0
    /\ HasHide("A", 1)
    /\ \A m \in MsgIds : ~BagIn(<<m, "C">>, reads)

\* C18: no step removes a message row: the ledger only grows, and every
\* row keeps its id, conversationId, senderId and createdAt.
C18_LedgerOnlyGrows ==
    [][/\ Len(messages') >= Len(messages)
       /\ \A i \in 1..Len(messages) :
            /\ messages'[i].id = messages[i].id
            /\ messages'[i].conversationId = messages[i].conversationId
            /\ messages'[i].senderId = messages[i].senderId
            /\ messages'[i].createdAt = messages[i].createdAt
    ]_vars

\* two rows, of which the first has been soft-deleted, hidden by "B",
\* reacted to and the second read by "A"
C18_Witness ==
    /\ Len(messages) = 2
    /\ ~IsNull(messages[1].deletedAt)
    /\ BagIn(<<1, "B">>, msgHide)
    /\ \E r \in reactions : r[1] = 1
    /\ BagIn(<<2, "A">>, reads)

\* C20: hideMessage, deleteMessage and toggleReaction on a message that
\* does not exist answer 404 and change no table.
C20_MissingMessageIsNotFound ==
    [][\A u \in Users, m \in MsgIds :
        (resp'.op \in {"hideMessage", "deleteMessage", "toggleReaction"}
            /\ ~MessageExists(m))
        => \A e \in {"+1", "joy"} :
                (HideMessage(u, m) \/ DeleteMessage(u, m)
                    \/ ToggleReaction(u, m, Some(e)))
                => /\ resp'.status = 404
                   /\ UNCHANGED <<messages, msgHide, reactions, reads, convHide>>
    ]_vars

\* C15: in every listConversations answer of user u, the unread count of a
\* conversation is the number of its messages that u did not send, that are
\* not soft-deleted, that have no MessageRead row of u and that, when the
\* conversation is windowed for u, were created at or after visibleFrom.
C15_UnreadCountInWindow ==
    \A u \in Users : \A r \in ListConversationsResults(u) :
        \A i \in 1..Len(r) :
            r[i].unreadCount = Cardinality({m \in Range(messages) :
                /\ m.conversationId = r[i].id
                /\ m.senderId # u
                /\ IsNull(m.deletedAt)
                /\ CopiesIn(<<m.id, u>>, reads) = 0
                /\ HideState(u, r[i].id) = "VISIBLE_WINDOWED"
                      => m.createdAt >= Val(HideRecord(u, r[i].id).visibleFrom)})

\* "A" lists the DM with "B", windowed from time 1: of "B"'s messages the
\* one of time 0 is outside the window and the one of time 1 counts
C15_Witness ==
    /\ resp = Reply("listConversations", 200)
    /\ HideState("A", 1) = "VISIBLE_WINDOWED"
    /\ Len(messages) = 2
    /\ \A i \in 1..2 :
        /\ messages[i].senderId = "B" /\ messages[i].conversationId = 1
        /\ IsNull(messages[i].deletedAt) /\ ~BagIn(<<i, "A">>, reads)
    /\ messages[1].createdAt < Val(HideRecord("A", 1).visibleFrom)
    /\ messages[2].createdAt >= Val(HideRecord("A", 1).visibleFrom)
    /\ \A r \in ListConversationsResults("A") :
        \E i \in 1..Len(r) : r[i].id = 1 /\ r[i].unreadCount = 1

\* C16: in every listConversations answer of user u, the preview of a
\* conversation is one latest non-deleted message of it, or empty when there
\* is none or when the conversation is windowed for u and that message was
\* created before visibleFrom; the answer is ordered newest first by the
\* preview's creation time, and by the conversation's own creation time
\* where the preview is empty.
C16_PreviewAndOrder ==
    \A u \in Users : \A r \in ListConversationsResults(u) :
        LET alive(c) == {m \in Range(messages) :
                            m.conversationId = c /\ IsNull(m.deletedAt)}
            latest(c) == {m \in alive(c) :
                            \A k \in alive(c) : k.createdAt <= m.createdAt}
            buried(c) == /\ HideState(u, c) = "VISIBLE_WINDOWED"
                         /\ \A m \in latest(c) :
                                m.createdAt < Val(HideRecord(u, c).visibleFrom)
            key(i) == IF r[i].messages = <<>>
                      THEN CHOOSE t \in {cv.createdAt : cv \in
                                {x \in Range(conversations) : x.id = r[i].id}} : TRUE
                      ELSE r[i].messages[1].createdAt
        IN /\ \A i \in 1..Len(r) :
                IF latest(r[i].id) = {} \/ buried(r[i].id)
                THEN r[i].messages = <<>>
                ELSE Len(r[i].messages) = 1 /\ r[i].messages[1] \in latest(r[i].id)
           /\ \A i, j \in 1..Len(r) : i < j => key(i) >= key(j)

\* "A" lists two DMs: the one with "B", older, holds a live message of time
\* 0 buried before the window opened at time 1 and comes with an empty
\* preview after the DM with "C", which was opened at time 0
C16_Witness ==
    /\ resp = Reply("listConversations", 200)
    /\ HideState("A", 1) = "VISIBLE_WINDOWED"
    /\ \E i \in 1..Len(messages) :
        /\ messages[i].conversationId = 1 /\ IsNull(messages[i].deletedAt)
        /\ messages[i].createdAt < Val(HideRecord("A", 1).visibleFrom)
        /\ messages[i].createdAt > conversations[2].createdAt
    /\ \A r \in ListConversationsResults("A") :
        /\ Len(r) = 2
        /\ r[1].id = 2 /\ r[2].id = 1
        /\ r[2].messages = <<>>

\* C17: listTyping(u, c) answers exactly the participants of c other than
\* u whose typing record for c has not expired, that is whose latest
\* pingTyping in c is less than the record's lifetime ago; a user who is not
\* a participant of c is never in the answer.
C17_TypingOnlyLiveParticipants ==
    \A u \in Users, c \in ConvIds :
        resp.op = "listTyping" =>
            LET members == UNION {cv.participants :
                                cv \in {x \in Range(conversations) : x.id = c}}
            IN /\ TypingUsers(u, c) =
                    {p \in members \ {u} :
                        <<c, p>> \in DOMAIN typing /\ typing[<<c, p>>] > now}
               /\ \A p \in TypingUsers(u, c) :
                    /\ p \in members
                    /\ typing[<<c, p>>] - TypingTtl <= now
                    /\ now < typing[<<c, p>>]

\* C19: a request whose cookie is missing, or whose token is forged,
\* expired or on the blocklist, is answered 401 by requireAuth and leaves
\* every table and the blocklist as they were; the blocklist never loses an
\* entry, and a logout that passes requireAuth puts its token's jti on it.
C19_RevokedTokenRejected ==
    [][/\ revokedJtis \subseteq revokedJtis'
       /\ \A k \in Cookies, req \in Requests :
            Request(k, req)
            => LET bad == \/ IsNull(k)
                          \/ ~Val(k).sealed
                          \/ Val(k).exp + clockTolerance <= now
                          \/ Val(k).jti \in revokedJtis
               IN /\ bad => /\ resp' = Reply("requireAuth", 401)
                            /\ UNCHANGED <<conversations, messages, convHide,
                                           msgHide, reads, reactions, typing,
                                           revokedJtis>>
                  /\ (~bad /\ req.op = "logout") => Val(k).jti \in revokedJtis'
                  /\ ~bad => resp'.op = req.op
    ]_vars

\* a request with the first token of "A" has just been turned away: the
\* token is sealed and not expired, and its jti is on the blocklist, while
\* the session of "B" is untouched
C19_Witness ==
    /\ resp = Reply("requireAuth", 401)
    /\ "j1" \in revokedJtis
    /\ "j3" \notin revokedJtis
    /\ Len(messages) > 0

\* C21: a send by a participant with no file and a content that is absent,
\* empty or made of whitespace only is answered 400 and changes neither the
\* messages nor the hide records.
C21_BlankSendIsInvalid ==
    [][\A u \in Users, c \in ConvIds, t \in {Null, Some(""), Some(" ")} :
        (IsParticipant(u, c) /\ SendMessage(u, c, 0, t))
        => /\ resp' = Reply("sendMessage", 400)
           /\ UNCHANGED <<messages, convHide>>
    ]_vars

\* C22: a send into conversation c changes a hide record only when the
\* record belongs to c and has visibleFrom = null: a record with a window
\* keeps its visibleFrom and its hiddenAt, a user without a record still has
\* none, the records of other conversations are untouched, and no record
\* loses its hiddenAt.
C22_SendTouchesOnlyHiddenRecords ==
    [][\A u \in Users, c \in ListedConvs :
        (resp'.op = "sendMessage" /\ SendMessage(u, c, 0, Some("hi")))
        => /\ DOMAIN convHide' = DOMAIN convHide
           /\ \A k \in DOMAIN convHide :
                /\ convHide'[k].hiddenAt = convHide[k].hiddenAt
                /\ (k[1] # c \/ ~IsNull(convHide[k].visibleFrom))
                        => convHide'[k] = convHide[k]
    ]_vars

\* a send of "A" into conversation 1 has just restarted it for "A", whose
\* record of conversation 2 is still fully hidden and whose record of
\* conversation 1 had been given a window before
C22_Witness ==
    /\ resp = Reply("sendMessage", 201)
    /\ HideState("A", 1) = "VISIBLE_WINDOWED"
    /\ HideState("A", 2) = "HIDDEN"
    /\ Len(messages) > 0
    /\ messages[Len(messages)].conversationId = 1
    /\ messages[Len(messages)].senderId = "A"
    /\ Val(HideRecord("A", 1).visibleFrom) < messages[Len(messages)].createdAt

\* the requests that were answered 201 and had found the conversation fully
\* hidden for p when they arrived
RestartersOf(p) ==
    {i \in Flights : inflight[i].status = 201 /\ p \in inflight[i].hidden}

\* C23: when two sends that both found the conversation hidden for p have
\* been answered 201 and p has not hidden again, p's visibleFrom is not
\* null, exactly one updateMany of one request matched p's record (every
\* other one matched no row), and the value is the createdAt of the first
\* message that request created.
C23_RacingSendsRestartOnce ==
    \A p \in Members :
        Cardinality(RestartersOf(p)) >= 2
        => LET writers == {i \in Flights : <<1, p>> \in inflight[i].wrote}
           IN /\ ~IsNull(HideRecord(p, 1).visibleFrom)
              /\ Cardinality(writers) = 1
              /\ \A i \in writers :
                    /\ inflight[i].status = 201
                    /\ HideRecord(p, 1).visibleFrom
                            = Some(inflight[i].messages[1].createdAt)
                    /\ inflight[i].messages[1] \in Range(messages)

\* two sends of "B" raced into the conversation "A" had hidden: both are
\* answered 201, the request that arrived second won the update and the
\* first one matched no row
C23_Witness ==
    /\ Len(inflight) = 2
    /\ RestartersOf("A") = {1, 2}
    /\ inflight[1].userId = "B" /\ inflight[2].userId = "B"
    /\ <<1, "A">> \in inflight[2].wrote
    /\ inflight[1].wrote = {}
    /\ inflight[1].messages[1].createdAt < inflight[2].messages[1].createdAt
    /\ HideRecord("A", 1).visibleFrom = Some(inflight[2].messages[1].createdAt)

\* the cursors a client can hold while the racing sends run
RaceCursors == {Null} \cup {Some(m) : m \in 1..(MaxFlights * MaxUploads)}

\* C24: under any interleaving of sends, a request answered 201 has created
\* one row per file and one for its text, each of them is in the ledger as
\* created, and a participant without a hide record reaches each of them
\* through listMessages.
C24_InterleavedSendsKeepEveryRow ==
    \A i \in Flights :
        inflight[i].status = 201
        => LET f == inflight[i] IN
           /\ Len(f.messages) = RowCount(f.files, f.content)
           /\ \A k \in 1..Len(f.messages) :
                /\ f.messages[k].id \in 1..Len(messages)
                /\ messages[f.messages[k].id] = f.messages[k]
                /\ \A u \in Members :
                    HideState(u, 1) = "VISIBLE_FULL"
                    => \E c \in RaceCursors :
                        \E found \in FindManyMessages(u, 1, c) :
                            f.messages[k] \in Range(found)

\* two requests of two rows each were interleaved row by row within one
\* millisecond and both were answered 201
C24_Witness ==
    /\ Len(inflight) = 2
    /\ inflight[1].status = 201 /\ inflight[2].status = 201
    /\ inflight[1].userId # inflight[2].userId
    /\ Ids(inflight[1].messages) = <<1, 3>>
    /\ Ids(inflight[2].messages) = <<2, 4>>
    /\ \A k \in 1..4 : messages[k].createdAt = 0
    /\ HideState("A", 1) = "VISIBLE_FULL"

\* C27: once a send has been answered, with success or with an error, and
\* has created at least one message, every user for whom the conversation
\* was fully hidden when the request arrived has a visibleFrom.
C27_AnsweredSendRestarts ==
    \A i \in Flights :
        (inflight[i].pc = "done" /\ inflight[i].messages # <<>>)
        => \A p \in inflight[i].hidden :
                ~IsNull(HideRecord(p, inflight[i].conversationId).visibleFrom)

\* C25: under any interleaving of listMessages calls, a call by a
\* participant is answered 200 once it is answered, no (message, user) pair
\* has two MessageRead rows, and a message two answered calls both found
\* unread has exactly one row for their user.
C25_RacingReadsInsertOnce ==
    /\ \A m \in MsgIds, u \in Users : CopiesIn(<<m, u>>, reads) <= 1
    /\ \A i \in Flights :
        LET f == inflight[i] IN
        f.pc = "done"
        => /\ f.status = IF IsParticipant(f.userId, f.conversationId)
                         THEN 200 ELSE 403
           /\ \A m \in f.unreadMessages :
                CopiesIn(<<m.id, f.userId>>, reads) = 1

\* two calls of "A" for the first page both found messages 1 and 2 unread
\* before either inserted, and both have been answered
C25_Witness ==
    /\ Len(inflight) = 2
    /\ \A i \in {1, 2} :
        /\ inflight[i].userId = "A" /\ IsNull(inflight[i].cursor)
        /\ inflight[i].status = 200
        /\ {m.id : m \in inflight[i].unreadMessages} = {1, 2}
    /\ CopiesIn(<<1, "A">>, reads) = 1
    /\ CopiesIn(<<2, "A">>, reads) = 1

\* C26: under any interleaving of openDirectMessage calls, two non-group
\* conversations never have the same pair of participants, every non-group
\* conversation has two participants, and of the calls for one pair at most
\* one is answered 201.
C26_OneDmPerPair ==
    /\ \A i, j \in 1..Len(conversations) :
        (~conversations[i].isGroup /\ ~conversations[j].isGroup
            /\ conversations[i].participants = conversations[j].participants)
        => i = j
    /\ \A i \in 1..Len(conversations) :
        ~conversations[i].isGroup
        => Cardinality(conversations[i].participants) = 2
    /\ \A i, j \in Flights :
        (inflight[i].status = 201 /\ inflight[j].status = 201
            /\ {inflight[i].userId, Val(inflight[i].targetUserId)}
                = {inflight[j].userId, Val(inflight[j].targetUserId)})
        => i = j

\* C28: the order of the conversations in the answer of listConversations
\* is determined by the database content: the store's choice among rows of
\* equal createdAt never shows in it.
C28_ListOrderIsDetermined ==
    \A u \in Users :
        \A r1, r2 \in ListConversationsResults(u) : Ids(r1) = Ids(r2)

\* C29: the attachment list served to participant u of a conversation never
\* holds a message u has a MessageHide row for, nor, when u's record has a
\* visibleFrom, a message created before it.
C29_AttachmentsRespectHides ==
    \A u \in Members :
        IsParticipant(u, 1)
        => \A found \in Attachments(1) :
             \A m \in Range(found) :
                /\ ~BagIn(<<m.id, u>>, msgHide)
                /\ HideState(u, 1) = "VISIBLE_WINDOWED"
                      => m.createdAt >= Val(HideRecord(u, 1).visibleFrom)

\* C30: no answer of listConversations for user u carries as preview a
\* message u has a MessageHide row for.
C30_HiddenMessageNeverPreview ==
    \A u \in Users :
        \A r \in ListConversationsResults(u) :
            \A i \in 1..Len(r) :
                \A p \in Range(r[i].messages) : ~BagIn(<<p.id, u>>, msgHide)

\* C31: when a user has followed a chain of listMessages calls to a null
\* nextCursor with no send since (here with all creation times distinct),
\* every listConversations answer of that user reports unreadCount 0 for
\* the conversation, whatever messages the user has hidden.
C31_PagedThroughMeansNoUnread ==
    (/\ chain.open /\ IsNull(chain.next)
     /\ \A i, j \in 1..Len(messages) :
            messages[i].createdAt = messages[j].createdAt => i = j)
    => \A r \in ListConversationsResults(chain.user) :
            \A i \in 1..Len(r) :
                r[i].id = chain.conv => r[i].unreadCount = 0

\* C32: in every state reached by interleaving hides, sends and DM
\* re-opens, a hide record with a visibleFrom has visibleFrom >= hiddenAt.
C32_WindowNotBeforeHide ==
    \A k \in DOMAIN convHide :
        ~IsNull(convHide[k].visibleFrom)
        => Val(convHide[k].visibleFrom) >= convHide[k].hiddenAt

\* C33: when every send that ran after p's hide has been answered 201 and
\* p has not hidden again, each message of a request that found the
\* conversation hidden for p was created at or after p's visibleFrom and is
\* reached by p through listMessages.
C33_NoTrafficCutOff ==
    (/\ inflight # <<>>
     /\ \A i \in Flights : inflight[i].status = 201)
    => \A p \in Members, i \in Flights :
        p \in inflight[i].hidden
        => \A k \in 1..Len(inflight[i].messages) :
            LET m == inflight[i].messages[k] IN
            /\ ~IsNull(HideRecord(p, 1).visibleFrom)
            /\ m.createdAt >= Val(HideRecord(p, 1).visibleFrom)
            /\ \E c \in RaceCursors :
                \E found \in FindManyMessages(p, 1, c) : m \in Range(found)

\* C34: while the record of participant u has visibleFrom = null, the
\* messages u reaches through listMessages are all messages of the
\* conversation without a MessageHide row of u, whenever created; the first
\* page is full when there are enough of them; and a listMessages step of u
\* leaves a MessageRead row of u for every served message of another sender.
C34_HiddenListsFullHistory ==
    /\ [](\A u \in Users, c \in ConvIds :
            (IsParticipant(u, c) /\ HideState(u, c) = "HIDDEN")
            => LET full == {m \in Range(messages) :
                        m.conversationId = c /\ ~BagIn(<<m.id, u>>, msgHide)}
               IN /\ UNION {Range(found) : found \in
                        UNION {FindManyMessages(u, c, k) : k \in Cursors}} = full
                  /\ \A found \in FindManyMessages(u, c, Null) :
                        Len(found) = IF Cardinality(full) < limit
                                     THEN Cardinality(full) ELSE limit)
    /\ [][\A u \in Users, c \in ConvIds, k \in Cursors :
            (resp' = Reply("listMessages", 200) /\ messages' = messages
                    /\ IsParticipant(u, c) /\ HideState(u, c) = "HIDDEN")
            => \A found \in FindManyMessages(u, c, k) :
                    ListMessagesReply(u, c, k, found)
                    => \A m \in Range(found) :
                            m.senderId # u => BagIn(<<m.id, u>>, reads')
       ]_vars

\* "A" has hidden the conversation and it has not restarted; of the two
\* messages of "B", both older than the hide, "A" has hidden the first and a
\* listMessages call has served and marked as read the second
C34_Witness ==
    /\ resp = Reply("listMessages", 200)
    /\ HideState("A", 1) = "HIDDEN"
    /\ Len(messages) = 2
    /\ messages[1].senderId = "B" /\ messages[2].senderId = "B"
    /\ messages[2].createdAt < HideRecord("A", 1).hiddenAt
    /\ BagIn(<<1, "A">>, msgHide)
    /\ BagIn(<<2, "A">>, reads)
    /\ \A found \in FindManyMessages("A", 1, Null) : Ids(found) = <<2>>
====
